---- MODULE Spec2Model ----
(***************************************************************************)
(* Credential and session lifecycle of the server: the UserResolver        *)
(* operations register, login, logout, me, forgotPassword, changePassword  *)
(* running as concurrent requests over the shared account table            *)
(* (MikroORM / PostgreSQL), the redis key-value store and the redis-backed *)
(* express-session store.  Every await of a resolver is a scheduling       *)
(* point, so every resolver is split into one action per store access.     *)
(***************************************************************************)
EXTENDS Integers, Sequences, FiniteSets, TLC

(* ------------------------------ bounds -------------------------------- *)
MaxUsers == 2
MaxTokens == 2
MaxSids == 2
MaxTicks == 1
MaxRequests == 4
MaxOverlaps == 1
MaxFaults == 1

\* the requests the server has in flight at once are told apart by a slot number
Procs == {1, 2}

(* ------------------------- strings and inputs ------------------------- *)
\* usernames and emails are character sequences: includes('@') looks inside
Alice == <<"a", "l", "i">>
Bob == <<"b", "o", "b">>
AliceMail == <<"a", "@", "x">>
BobMail == <<"b", "@", "x">>

RegisterInputs ==
    { [username |-> Alice, password |-> "pw1", email |-> AliceMail],
      [username |-> Alice, password |-> "pw2", email |-> BobMail],
      [username |-> Bob, password |-> "pw2", email |-> AliceMail],
      [username |-> Alice, password |-> "pw", email |-> AliceMail],
      [username |-> AliceMail, password |-> "pw1", email |-> <<"a", "x">>] }

LoginInputs ==
    { [usernameOrEmail |-> Alice, password |-> "pw1"],
      [usernameOrEmail |-> Alice, password |-> "pw2"],
      [usernameOrEmail |-> AliceMail, password |-> "pw1"] }
NewPasswords == {"pw", "pw2", "pw3"}
Emails == {AliceMail, BobMail}
\* the uuids v4() can return, and a string it never returns
Tokens == {"t" \o ToString(i) : i \in 1..MaxTokens}
BogusToken == "t0"

Includes(s, c) == \E i \in DOMAIN s : s[i] = c

(* ------------------ number <-> decimal string ------------------------- *)
Digits == <<"0", "1", "2", "3", "4", "5", "6", "7", "8", "9">>
NaN == -1

RECURSIVE NumberToString(_)
\* redis.set(key, user.id, ...): the client sends a number as its decimal text
NumberToString(n) ==
    IF n < 10 THEN <<Digits[n + 1]>>
    ELSE NumberToString(n \div 10) \o <<Digits[(n % 10) + 1]>>

IsDigit(c) == \E d \in 1..10 : Digits[d] = c
DigitVal(c) == (CHOOSE d \in 1..10 : Digits[d] = c) - 1

RECURSIVE ParseDigits(_, _, _)
ParseDigits(s, i, acc) ==
    IF i > Len(s) \/ ~IsDigit(s[i]) THEN acc
    ELSE ParseDigits(s, i + 1, acc * 10 + DigitVal(s[i]))

\* parseInt(userId): the leading decimal digits, NaN when there are none
parseInt(s) ==
    IF Len(s) = 0 \/ ~IsDigit(s[1]) THEN NaN ELSE ParseDigits(s, 1, 0)

(* ----------------------------- constants ------------------------------ *)
FORGET_PASSWORD_PREFIX == "reset:"
SecondsPerDay == 86400
\* the fourth argument of redis.set in forgotPassword: 1000 * 60 * 60 * 24 * 3
ResetTtlArg == 1000 * 60 * 60 * 24 * 3
\* the spec's life of a reset token, 3 days, in seconds
ThreeDays == 3 * SecondsPerDay
\* one step of the clock, in days
TickDays == 4

(* --------------------------- argon2 ----------------------------------- *)
Salts == {"s1"}
\* hash(plain): a salted one-way digest
hash(plain, salt) == [salt |-> salt, of |-> plain]
\* verify(digest, plain)
verify(digest, plain) == digest.of = plain

(* ------------------------------ state --------------------------------- *)
VARIABLES
    users,       \* the user table: a set of rows [id, username, email, password]
    nextId,      \* the serial primary key
    redis,       \* reset-token keys: key -> [value, expireAt, issuedAt]
    issued,      \* the tokens v4() has produced so far
    sessions,    \* the session store: sid -> userId
    nextSid,     \* the next session id to generate
    outbox,      \* the mails sendEmail has delivered
    now,         \* the clock, in seconds
    procs,       \* the requests in flight
    redeemed,    \* history: token -> number of changePassword calls that returned a user
    registered,  \* history: the register calls that returned a user, and whether
                 \* a changePassword has written the account since
    loggedOut,   \* history: sid -> outcome of the last logout since the last save
    requests,    \* the number of requests received so far
    overlaps,    \* how many more times a client sends a request while another
                 \* request is in flight
    faults       \* how many more times a call to the database or to redis rejects

vars == <<users, nextId, redis, issued, sessions, nextSid, outbox, now, procs,
          redeemed, registered, loggedOut, requests, overlaps, faults>>

NoUser == [id |-> 0, username |-> <<>>, email |-> <<>>,
           password |-> [salt |-> "", of |-> ""]]
NoResult == [tag |-> "none", errors |-> <<>>, user |-> NoUser, val |-> FALSE]
FieldError(f, m) == [field |-> f, message |-> m]
Errors(es) == [NoResult EXCEPT !.tag = "errors", !.errors = es]
UserResult(u) == [NoResult EXCEPT !.tag = "user", !.user = u]
BoolResult(b) == [NoResult EXCEPT !.tag = "bool", !.val = b]
NullResult == [NoResult EXCEPT !.tag = "null"]
Thrown == [NoResult EXCEPT !.tag = "throw"]

Idle == [op |-> "idle", pc |-> "idle",
         sid |-> 0,          \* req.sessionID when it was loaded from the store, 0 = new
         sess0 |-> 0,        \* req.session.userId as loaded, 0 = unset
         sess |-> 0,         \* req.session.userId now
         destroyed |-> FALSE,
         cleared |-> FALSE,  \* res.clearCookie was called
         name |-> <<>>, password |-> "", email |-> <<>>, token |-> "",
         userId |-> <<>>, user |-> NoUser, hashed |-> NoUser.password,
         result |-> NoResult,
         again |-> FALSE,    \* history: the token had been redeemed before the call
         live |-> FALSE,     \* history: the token was in the store at the call
         after |-> "no",     \* history: loggedOut of the cookie's sid at the call
         age |-> -1,         \* history: age of the token when redis.get found it
         err |-> FALSE]      \* history: the store reported an error to destroy

(* ------------------------- the stores --------------------------------- *)
\* em.findOne(User, where)
FindById(id) == IF \E u \in users : u.id = id
                THEN CHOOSE u \in users : u.id = id ELSE NoUser
FindByUsername(n) == IF \E u \in users : u.username = n
                     THEN CHOOSE u \in users : u.username = n ELSE NoUser
FindByEmail(e) == IF \E u \in users : u.email = e
                  THEN CHOOSE u \in users : u.email = e ELSE NoUser

\* the unique constraints of the user table
UniqueViolation(row) ==
    \E u \in users : u.username = row.username \/ u.email = row.email

\* redis.get(key): the value, or the empty string for null
RedisLive(key) == key \in DOMAIN redis /\ now < redis[key].expireAt
RedisGet(key) == IF RedisLive(key) THEN redis[key].value ELSE <<>>

\* redis.set(key, value, 'ex', n): EX counts seconds
RedisSet(key, value, n) ==
    [k \in DOMAIN redis \cup {key} |->
        IF k = key THEN [value |-> NumberToString(value),
                         expireAt |-> now + n, issuedAt |-> now]
        ELSE redis[k]]

\* a del that leaves the key in place
RedisDelNothing(key) == redis

\* redis.del(key)
RedisDel(key) == [k \in DOMAIN redis \ {key} |-> redis[k]]

(* ------------------------- request start ------------------------------ *)
Binding(op) == op \in {"register", "login", "changePassword"}

\* the server takes a request: the lowest free slot, while the clients send more
Busy == \E q \in Procs : procs[q].op # "idle"
Free(p) ==
    /\ procs[p].op = "idle"
    /\ \A q \in Procs : procs[q].op = "idle" => p <= q
    /\ Busy => overlaps > 0
    /\ requests < MaxRequests

\* the session middleware: load the cookie's session, or start a new one
Begin(p, h, op) ==
    /\ Free(p)
    /\ requests' = requests + 1
    /\ overlaps' = IF Busy THEN overlaps - 1 ELSE overlaps
    /\ UNCHANGED faults
    /\ h \in 0..(nextSid - 1)
    /\ (Binding(op) /\ h \notin DOMAIN sessions) =>
          nextSid + Cardinality({q \in Procs : Binding(procs[q].op)
                                               /\ procs[q].sid = 0}) <= MaxSids

Loaded(h, op) ==
    [Idle EXCEPT !.op = op,
                 !.sid = IF h \in DOMAIN sessions THEN h ELSE 0,
                 !.sess0 = IF h \in DOMAIN sessions THEN sessions[h] ELSE 0,
                 !.sess = IF h \in DOMAIN sessions THEN sessions[h] ELSE 0,
                 !.after = IF h \in DOMAIN loggedOut THEN loggedOut[h] ELSE "no"]

At(p, op, pc) == procs[p].op = op /\ procs[p].pc = pc

\* the resolver returns r: its locals are gone, its inputs are kept for the record
Done(p, r) == [procs[p] EXCEPT !.pc = "done", !.result = r, !.userId = <<>>,
                               !.user = NoUser, !.hashed = NoUser.password]

(* ------------------- a store call that rejects ------------------------ *)
\* whether the next call to the database or to redis may reject
FaultChoices == IF faults > 0 THEN BOOLEAN ELSE {FALSE}

\* an awaited call outside any try block rejects: the resolver's promise rejects
Rejects(p) ==
    /\ faults' = faults - 1
    /\ procs' = [procs EXCEPT ![p] = Done(p, Thrown)]
    /\ UNCHANGED <<users, nextId, redis, issued, sessions, nextSid, outbox, now,
                   redeemed, registered, loggedOut, requests, overlaps>>

\* the step of resolver op at its await pc: the call rejects, or it answers and
\* the resolver goes on with onward
Access(p, op, pc, onward) ==
    /\ At(p, op, pc)
    /\ \E fail \in FaultChoices : IF fail THEN Rejects(p) ELSE onward

(* --------------------------- changePassword --------------------------- *)
\* the length check off by one
PasswordTooShortBelowTwo(pw) == Len(pw) < 2

\* if (newPassword.length < 3)
PasswordTooShort(pw) == Len(pw) < 3

\* a client presents a token it was mailed, or a string of its own
Presentable == {m.token : m \in outbox} \cup {BogusToken}

\* a changePassword that deletes the key before it checks anything
ChangePasswordStartDeletes(p, h, token, newPassword) ==
    /\ Begin(p, h, "changePassword")
    /\ token \in Presentable
    /\ LET r == [Loaded(h, "changePassword") EXCEPT
                    !.token = token, !.password = newPassword,
                    !.again = redeemed[token] > 0,
                    !.live = RedisLive(FORGET_PASSWORD_PREFIX \o token)]
       IN procs' = [procs EXCEPT ![p] =
            IF PasswordTooShort(newPassword)
            THEN [r EXCEPT !.pc = "done",
                    !.result = Errors(<<FieldError("newPassword",
                                        "length must be greater than 3")>>)]
            ELSE [r EXCEPT !.pc = "get"]]
    /\ redis' = [k \in DOMAIN redis \ {FORGET_PASSWORD_PREFIX \o token} |-> redis[k]]
    /\ UNCHANGED <<users, nextId, issued, sessions, nextSid, outbox, now,
                   redeemed, registered, loggedOut>>

\* if (newPassword.length < 3) return the error; const key = PREFIX + token
ChangePasswordStart(p, h, token, newPassword) ==
    /\ Begin(p, h, "changePassword")
    /\ token \in Presentable
    /\ LET r == [Loaded(h, "changePassword") EXCEPT
                    !.token = token, !.password = newPassword,
                    !.again = redeemed[token] > 0,
                    !.live = RedisLive(FORGET_PASSWORD_PREFIX \o token)]
       IN procs' = [procs EXCEPT ![p] =
            IF PasswordTooShort(newPassword)
            THEN [r EXCEPT !.pc = "done",
                    !.result = Errors(<<FieldError("newPassword",
                                        "length must be greater than 3")>>)]
            ELSE [r EXCEPT !.pc = "get"]]
    /\ UNCHANGED <<users, nextId, redis, issued, sessions, nextSid, outbox, now,
                   redeemed, registered, loggedOut>>

ResetKey(token) == FORGET_PASSWORD_PREFIX \o token

\* const userId = await redis.get(key); if (!userId) ...
ChangePasswordGet(p) ==
    /\ At(p, "changePassword", "get")
    /\ LET key == ResetKey(procs[p].token)
           userId == RedisGet(key)
       IN procs' = [procs EXCEPT ![p] =
            IF userId = <<>>
            THEN Done(p, Errors(<<FieldError("token", "token expired")>>))
            ELSE [procs[p] EXCEPT !.pc = "find", !.userId = userId,
                                  !.age = now - redis[key].issuedAt]]
    /\ UNCHANGED <<users, nextId, redis, issued, sessions, nextSid, outbox, now,
                   redeemed, registered, loggedOut, requests, overlaps, faults>>

\* a changePassword that hashes the token in place of the new password
ChangePasswordFindHashesToken(p) ==
    /\ At(p, "changePassword", "find")
    /\ LET user == FindById(parseInt(procs[p].userId))
       IN \E salt \in Salts :
            procs' = [procs EXCEPT ![p] =
              IF user = NoUser
              THEN Done(p, Errors(<<FieldError("token", "user no longer exists")>>))
              ELSE [procs[p] EXCEPT !.pc = "flush", !.user = user,
                                    !.hashed = hash(procs[p].token, salt)]]
    /\ UNCHANGED <<users, nextId, redis, issued, sessions, nextSid, outbox, now,
                   redeemed, registered, loggedOut, requests, overlaps, faults>>

\* const user = await em.findOne(User, { id: parseInt(userId) }); then hash
ChangePasswordFind(p) ==
    /\ At(p, "changePassword", "find")
    /\ LET user == FindById(parseInt(procs[p].userId))
       IN \E salt \in Salts :
            procs' = [procs EXCEPT ![p] =
              IF user = NoUser
              THEN Done(p, Errors(<<FieldError("token", "user no longer exists")>>))
              ELSE [procs[p] EXCEPT !.pc = "flush", !.user = user,
                                    !.hashed = hash(procs[p].password, salt)]]
    /\ UNCHANGED <<users, nextId, redis, issued, sessions, nextSid, outbox, now,
                   redeemed, registered, loggedOut, requests, overlaps, faults>>

\* a flush that inserts the changed row as a new account and drops the old one
ChangePasswordFlushNewRow(p) ==
    /\ At(p, "changePassword", "flush")
    /\ LET user == [procs[p].user EXCEPT !.password = procs[p].hashed,
                                         !.id = nextId]
       IN /\ users' = {u \in users : u.id # procs[p].user.id} \cup {user}
          /\ nextId' = nextId + 1
          /\ registered' = {IF r.id = procs[p].user.id
                            THEN [r EXCEPT !.changed = TRUE,
                                           !.current = procs[p].password]
                            ELSE r : r \in registered}
          /\ procs' = [procs EXCEPT ![p] = [procs[p] EXCEPT !.pc = "del",
                                                            !.user = user]]
    /\ UNCHANGED <<redis, issued, sessions, nextSid, outbox, now,
                   redeemed, loggedOut, requests, overlaps, faults>>

\* a flush whose update has no where clause: every row gets the new password
ChangePasswordFlushEveryRow(p) ==
    /\ At(p, "changePassword", "flush")
    /\ LET user == [procs[p].user EXCEPT !.password = procs[p].hashed]
       IN /\ users' = {[u EXCEPT !.password = user.password] : u \in users}
          /\ registered' = {IF r.id = user.id
                            THEN [r EXCEPT !.changed = TRUE,
                                           !.current = procs[p].password]
                            ELSE r : r \in registered}
          /\ procs' = [procs EXCEPT ![p] = [procs[p] EXCEPT !.pc = "del",
                                                            !.user = user]]
    /\ UNCHANGED <<nextId, redis, issued, sessions, nextSid, outbox, now,
                   redeemed, loggedOut, requests, overlaps, faults>>

\* user.password = ...; await em.persistAndFlush(user)
ChangePasswordFlush(p) ==
    /\ At(p, "changePassword", "flush")
    /\ LET user == [procs[p].user EXCEPT !.password = procs[p].hashed]
       IN /\ users' = {IF u.id = user.id THEN [u EXCEPT !.password = user.password]
                       ELSE u : u \in users}
          /\ registered' = {IF r.id = user.id THEN [r EXCEPT !.changed = TRUE, !.current = procs[p].password]
                            ELSE r : r \in registered}
          /\ procs' = [procs EXCEPT ![p] = [procs[p] EXCEPT !.pc = "del",
                                                            !.user = user]]
    /\ UNCHANGED <<nextId, redis, issued, sessions, nextSid, outbox, now,
                   redeemed, loggedOut, requests, overlaps, faults>>

\* await redis.del(key); req.session.userId = user.id; return { user }
ChangePasswordDel(p) ==
    /\ At(p, "changePassword", "del")
    /\ redis' = RedisDel(ResetKey(procs[p].token))
    /\ procs' = [procs EXCEPT ![p] =
            [Done(p, UserResult(procs[p].user)) EXCEPT !.sess = procs[p].user.id]]
    /\ redeemed' = [redeemed EXCEPT ![procs[p].token] = @ + 1]
    /\ UNCHANGED <<users, nextId, issued, sessions, nextSid, outbox, now,
                   registered, loggedOut, requests, overlaps, faults>>

(* --------------------------- forgotPassword --------------------------- *)
ForgotPasswordStart(p, email) ==
    /\ Begin(p, 0, "forgotPassword")
    /\ procs' = [procs EXCEPT ![p] =
            [Loaded(0, "forgotPassword") EXCEPT !.email = email, !.pc = "find"]]
    /\ UNCHANGED <<users, nextId, redis, issued, sessions, nextSid, outbox, now,
                   redeemed, registered, loggedOut>>

\* a forgotPassword without the early return for an unknown email
ForgotPasswordFindNoReturn(p) ==
    /\ At(p, "forgotPassword", "find")
    /\ LET user == FindByEmail(procs[p].email)
       IN \E token \in Tokens \ issued :
               /\ issued' = issued \cup {token}
               /\ procs' = [procs EXCEPT ![p] =
                    [procs[p] EXCEPT !.pc = "set", !.user = user, !.token = token]]
    /\ UNCHANGED <<users, nextId, redis, sessions, nextSid, outbox, now,
                   redeemed, registered, loggedOut, requests, overlaps, faults>>

\* const user = await em.findOne(User, { email }); if (!user) return true;
\* const token = v4()
ForgotPasswordFind(p) ==
    /\ At(p, "forgotPassword", "find")
    /\ LET user == FindByEmail(procs[p].email)
       IN IF user = NoUser
          THEN /\ procs' = [procs EXCEPT ![p] = Done(p, BoolResult(TRUE))]
               /\ UNCHANGED issued
          ELSE \E token \in Tokens \ issued :
               /\ issued' = issued \cup {token}
               /\ procs' = [procs EXCEPT ![p] =
                    [procs[p] EXCEPT !.pc = "set", !.user = user, !.token = token]]
    /\ UNCHANGED <<users, nextId, redis, sessions, nextSid, outbox, now,
                   redeemed, registered, loggedOut, requests, overlaps, faults>>

\* a forgotPassword that keeps one token per account: the earlier keys of the
\* same user id are dropped
ForgotPasswordSetSingleToken(p) ==
    /\ At(p, "forgotPassword", "set")
    /\ redis' = LET set == RedisSet(ResetKey(procs[p].token), procs[p].user.id,
                                    ResetTtlArg)
                    key == ResetKey(procs[p].token)
                IN [k \in {j \in DOMAIN set :
                             j = key \/ set[j].value # set[key].value} |-> set[k]]
    /\ procs' = [procs EXCEPT ![p] = [procs[p] EXCEPT !.pc = "send"]]
    /\ UNCHANGED <<users, nextId, issued, sessions, nextSid, outbox, now,
                   redeemed, registered, loggedOut, requests, overlaps, faults>>

\* await redis.set(FORGET_PASSWORD_PREFIX + token, user.id, 'ex', 1000*60*60*24*3)
ForgotPasswordSet(p) ==
    /\ At(p, "forgotPassword", "set")
    /\ redis' = RedisSet(ResetKey(procs[p].token), procs[p].user.id, ResetTtlArg)
    /\ procs' = [procs EXCEPT ![p] = [procs[p] EXCEPT !.pc = "send"]]
    /\ UNCHANGED <<users, nextId, issued, sessions, nextSid, outbox, now,
                   redeemed, registered, loggedOut, requests, overlaps, faults>>

\* sendEmail(to, html): the promise resolves once the mail is handed over and
\* rejects when the transport fails
SendEmailOutcomes == {"resolved", "rejected"}

\* await sendEmail(email, html); return true
ForgotPasswordSend(p, outcome) ==
    /\ At(p, "forgotPassword", "send")
    /\ IF outcome = "resolved"
       THEN /\ outbox' = outbox \cup {[to |-> procs[p].email, token |-> procs[p].token]}
            /\ procs' = [procs EXCEPT ![p] = Done(p, BoolResult(TRUE))]
       ELSE /\ outbox' = outbox
            /\ procs' = [procs EXCEPT ![p] = Done(p, Thrown)]
    /\ UNCHANGED <<users, nextId, redis, issued, sessions, nextSid, now,
                   redeemed, registered, loggedOut, requests, overlaps, faults>>

(* ------------------------------ register ------------------------------ *)
\* validateRegister(options): one error per violated field, null when valid
validateRegister(options) ==
    (IF ~Includes(options.email, "@")
     THEN <<FieldError("email", "invalid email")>> ELSE <<>>)
    \o (IF Len(options.username) < 3
        THEN <<FieldError("username", "length must be greater than 2")>>
        ELSE IF Includes(options.username, "@")
        THEN <<FieldError("username", "cannot include an @")>> ELSE <<>>)
    \o (IF Len(options.password) < 3
        THEN <<FieldError("password", "length must be greater than 2")>> ELSE <<>>)

RegisterStart(p, h, options) ==
    /\ Begin(p, h, "register")
    /\ validateRegister(options) = <<>> =>
          nextId + Cardinality({q \in Procs : procs[q].op = "register"
                                              /\ procs[q].pc # "done"}) <= MaxUsers
    /\ LET errors == validateRegister(options)
           r == [Loaded(h, "register") EXCEPT
                    !.name = options.username, !.password = options.password,
                    !.email = options.email]
       IN \E salt \in Salts :
            procs' = [procs EXCEPT ![p] =
              IF errors # <<>>
              THEN [r EXCEPT !.pc = "done", !.result = Errors(errors)]
              ELSE [r EXCEPT !.pc = "find",
                             !.hashed = hash(options.password, salt)]]
    /\ UNCHANGED <<users, nextId, redis, issued, sessions, nextSid, outbox, now,
                   redeemed, registered, loggedOut>>

\* a pre-check that signs the caller in as the holder of the taken username
RegisterFindSignsIn(p) ==
    /\ At(p, "register", "find")
    /\ LET valid == FindByUsername(procs[p].name)
       IN procs' = [procs EXCEPT ![p] =
            IF valid # NoUser
            THEN [Done(p, Errors(<<FieldError("username", "username already taken")>>))
                    EXCEPT !.sess = valid.id]
            ELSE [procs[p] EXCEPT !.pc = "flush",
                    !.user = [id |-> 0, username |-> procs[p].name,
                              email |-> procs[p].email,
                              password |-> procs[p].hashed]]]
    /\ UNCHANGED <<users, nextId, redis, issued, sessions, nextSid, outbox, now,
                   redeemed, registered, loggedOut, requests, overlaps, faults>>

\* const valid = await em.findOne(User, { username }); if (valid) ...; em.create
RegisterFind(p) ==
    /\ At(p, "register", "find")
    /\ LET valid == FindByUsername(procs[p].name)
       IN procs' = [procs EXCEPT ![p] =
            IF valid # NoUser
            THEN Done(p, Errors(<<FieldError("username", "username already taken")>>))
            ELSE [procs[p] EXCEPT !.pc = "flush",
                    !.user = [id |-> 0, username |-> procs[p].name,
                              email |-> procs[p].email,
                              password |-> procs[p].hashed]]]
    /\ UNCHANGED <<users, nextId, redis, issued, sessions, nextSid, outbox, now,
                   redeemed, registered, loggedOut, requests, overlaps, faults>>

\* a register whose catch block logs the error and falls through to the return
RegisterFlushFallsThrough(p) ==
    /\ At(p, "register", "flush")
    /\ nextId' = nextId + 1
    /\ LET failed == UniqueViolation(procs[p].user)
           user == [procs[p].user EXCEPT !.id = IF failed THEN 0 ELSE nextId]
       IN /\ users' = IF failed THEN users ELSE users \cup {user}
          /\ procs' = [procs EXCEPT ![p] =
                [Done(p, UserResult(user)) EXCEPT !.sess = user.id]]
          /\ registered' = registered \cup
                {[id |-> user.id, username |-> user.username,
                  password |-> procs[p].password, current |-> procs[p].password,
                      changed |-> FALSE]}
    /\ UNCHANGED <<redis, issued, sessions, nextSid, outbox, now,
                   redeemed, loggedOut, requests, overlaps, faults>>

\* try { await em.persistAndFlush(user) } catch ...; req.session.userId = user.id
RegisterFlush(p) ==
    /\ At(p, "register", "flush")
    /\ nextId' = nextId + 1
    /\ \E fail \in FaultChoices :
       /\ faults' = IF fail THEN faults - 1 ELSE faults
       /\ IF fail \/ UniqueViolation(procs[p].user)
          THEN /\ procs' = [procs EXCEPT ![p] =
                   Done(p, Errors(<<FieldError("username", "something went wrong")>>))]
               /\ UNCHANGED <<users, registered>>
          ELSE LET user == [procs[p].user EXCEPT !.id = nextId]
               IN /\ users' = users \cup {user}
                  /\ procs' = [procs EXCEPT ![p] =
                       [Done(p, UserResult(user)) EXCEPT !.sess = user.id]]
                  /\ registered' = registered \cup
                       {[id |-> user.id, username |-> user.username,
                         password |-> procs[p].password,
                         current |-> procs[p].password, changed |-> FALSE]}
    /\ UNCHANGED <<redis, issued, sessions, nextSid, outbox, now,
                   redeemed, loggedOut, requests, overlaps>>

(* -------------------------------- login ------------------------------- *)
LoginStart(p, h, usernameOrEmail, password) ==
    /\ Begin(p, h, "login")
    /\ procs' = [procs EXCEPT ![p] =
            [Loaded(h, "login") EXCEPT !.name = usernameOrEmail,
                                       !.password = password, !.pc = "find"]]
    /\ UNCHANGED <<users, nextId, redis, issued, sessions, nextSid, outbox, now,
                   redeemed, registered, loggedOut>>

\* a lookup that never looks at the email column
LoginLookupByUsername(usernameOrEmail) == FindByUsername(usernameOrEmail)

\* em.findOne(User, usernameOrEmail.includes('@') ? { email } : { username })
LoginLookup(usernameOrEmail) ==
    IF Includes(usernameOrEmail, "@") THEN FindByEmail(usernameOrEmail)
    ELSE FindByUsername(usernameOrEmail)

\* login with the test of verify's answer inverted
LoginOutcomeInverted(user, password) ==
    IF user = NoUser
    THEN Errors(<<FieldError("usernameOrEmail", "that username doesn\"t exist")>>)
    ELSE IF verify(user.password, password)
    THEN Errors(<<FieldError("password", "Incorrect Password")>>)
    ELSE UserResult(user)

\* the rest of login once the row is there: verify, bind, return
LoginOutcome(user, password) ==
    IF user = NoUser
    THEN Errors(<<FieldError("usernameOrEmail", "that username doesn\"t exist")>>)
    ELSE IF ~verify(user.password, password)
    THEN Errors(<<FieldError("password", "Incorrect Password")>>)
    ELSE UserResult(user)

\* a login that writes req.session.userId as soon as the row is found
LoginFindBindsBeforeVerify(p) ==
    /\ At(p, "login", "find")
    /\ LET user == LoginLookup(procs[p].name)
           r == LoginOutcome(user, procs[p].password)
       IN procs' = [procs EXCEPT ![p] =
            IF user # NoUser
            THEN [Done(p, r) EXCEPT !.sess = user.id]
            ELSE Done(p, r)]
    /\ UNCHANGED <<users, nextId, redis, issued, sessions, nextSid, outbox, now,
                   redeemed, registered, loggedOut, requests, overlaps, faults>>

\* const user = await em.findOne(...); verify; req.session.userId = user.id
LoginFind(p) ==
    /\ At(p, "login", "find")
    /\ LET user == LoginLookup(procs[p].name)
           r == LoginOutcome(user, procs[p].password)
       IN procs' = [procs EXCEPT ![p] =
            IF r.tag = "user"
            THEN [Done(p, r) EXCEPT !.sess = user.id]
            ELSE Done(p, r)]
    /\ UNCHANGED <<users, nextId, redis, issued, sessions, nextSid, outbox, now,
                   redeemed, registered, loggedOut, requests, overlaps, faults>>

(* --------------------------------- me --------------------------------- *)
\* if (!req.session.userId) return null
MeStart(p, h) ==
    /\ Begin(p, h, "me")
    /\ LET r == Loaded(h, "me")
       IN procs' = [procs EXCEPT ![p] =
            IF r.sess = 0 THEN [r EXCEPT !.pc = "done", !.result = NullResult]
            ELSE [r EXCEPT !.pc = "find"]]
    /\ UNCHANGED <<users, nextId, redis, issued, sessions, nextSid, outbox, now,
                   redeemed, registered, loggedOut>>

\* const user = await em.findOne(User, { id: req.session.userId }); return user
MeFind(p) ==
    /\ At(p, "me", "find")
    /\ LET user == FindById(procs[p].sess)
       IN procs' = [procs EXCEPT ![p] =
            IF user = NoUser THEN Done(p, NullResult) ELSE Done(p, UserResult(user))]
    /\ UNCHANGED <<users, nextId, redis, issued, sessions, nextSid, outbox, now,
                   redeemed, registered, loggedOut, requests, overlaps, faults>>

(* ------------------------------- logout ------------------------------- *)
LogoutStart(p, h) ==
    /\ Begin(p, h, "logout")
    /\ procs' = [procs EXCEPT ![p] = [Loaded(h, "logout") EXCEPT !.pc = "destroy"]]
    /\ UNCHANGED <<users, nextId, redis, issued, sessions, nextSid, outbox, now,
                   redeemed, registered, loggedOut>>

\* a logout that resolves true whatever destroy reported
LogoutResultAlwaysTrue(err) == TRUE

\* what logout resolves with, given the err of the destroy callback
LogoutResult(err) == IF err THEN FALSE ELSE TRUE

\* a logout that signs the account out everywhere: every session of the user goes
LogoutDestroysAccount(p, err) ==
    /\ At(p, "logout", "destroy")
    /\ sessions' = IF err THEN sessions
                   ELSE [s \in {t \in DOMAIN sessions :
                                  t # procs[p].sid
                                  /\ sessions[t] # procs[p].sess0} |-> sessions[s]]
    /\ procs' = [procs EXCEPT ![p] =
            [Done(p, BoolResult(LogoutResult(err))) EXCEPT
                !.destroyed = TRUE, !.cleared = TRUE, !.err = err]]
    /\ loggedOut' = IF procs[p].sid = 0 THEN loggedOut
                    ELSE [s \in DOMAIN loggedOut \cup {procs[p].sid} |->
                            IF s = procs[p].sid
                            THEN (IF err THEN "err" ELSE "ok") ELSE loggedOut[s]]
    /\ UNCHANGED <<users, nextId, redis, issued, nextSid, outbox, now,
                   redeemed, registered, requests, overlaps, faults>>

\* a logout that clears the cookie and leaves the session in the store
LogoutKeepsSession(p, err) ==
    /\ At(p, "logout", "destroy")
    /\ procs' = [procs EXCEPT ![p] =
            [Done(p, BoolResult(LogoutResult(err))) EXCEPT
                !.destroyed = TRUE, !.cleared = TRUE, !.err = err]]
    /\ loggedOut' = IF procs[p].sid = 0 THEN loggedOut
                    ELSE [s \in DOMAIN loggedOut \cup {procs[p].sid} |->
                            IF s = procs[p].sid
                            THEN (IF err THEN "err" ELSE "ok") ELSE loggedOut[s]]
    /\ UNCHANGED <<users, nextId, redis, issued, sessions, nextSid, outbox, now,
                   redeemed, registered, requests, overlaps, faults>>

\* req.session.destroy((err) => { res.clearCookie(COOKIE_NAME); resolve(!err) })
\* err: the session store failed to delete the key
LogoutDestroy(p, err) ==
    /\ At(p, "logout", "destroy")
    /\ sessions' = IF err THEN sessions
                   ELSE [s \in DOMAIN sessions \ {procs[p].sid} |-> sessions[s]]
    /\ procs' = [procs EXCEPT ![p] =
            [Done(p, BoolResult(LogoutResult(err))) EXCEPT
                !.destroyed = TRUE, !.cleared = TRUE, !.err = err]]
    /\ loggedOut' = IF procs[p].sid = 0 THEN loggedOut
                    ELSE [s \in DOMAIN loggedOut \cup {procs[p].sid} |->
                            IF s = procs[p].sid
                            THEN (IF err THEN "err" ELSE "ok") ELSE loggedOut[s]]
    /\ UNCHANGED <<users, nextId, redis, issued, nextSid, outbox, now,
                   redeemed, registered, requests, overlaps, faults>>

(* --------------------------- end of a request ------------------------- *)
\* express-session at the end of the response: a session that was not
\* destroyed and whose content changed is written to the store, a new one
\* under a newly generated id
ShouldSave(r) == ~r.destroyed /\ r.sess # r.sess0

Respond(p) ==
    /\ procs[p].pc = "done"
    /\ procs' = [procs EXCEPT ![p] = Idle]
    /\ IF ShouldSave(procs[p])
       THEN LET sid == IF procs[p].sid # 0 THEN procs[p].sid ELSE nextSid
            IN /\ sessions' = [s \in DOMAIN sessions \cup {sid} |->
                                 IF s = sid THEN procs[p].sess ELSE sessions[s]]
               /\ nextSid' = IF procs[p].sid # 0 THEN nextSid ELSE nextSid + 1
       ELSE UNCHANGED <<sessions, nextSid>>
    /\ loggedOut' = IF Binding(procs[p].op) /\ procs[p].result.tag = "user"
                    THEN [s \in DOMAIN loggedOut \ {procs[p].sid} |-> loggedOut[s]]
                    ELSE loggedOut
    /\ UNCHANGED <<users, nextId, redis, issued, outbox, now, redeemed, registered,
                   requests, overlaps, faults>>

(* -------------------------------- clock ------------------------------- *)
Tick ==
    /\ now < MaxTicks * TickDays * SecondsPerDay
    /\ now' = now + TickDays * SecondsPerDay
    /\ UNCHANGED <<users, nextId, redis, issued, sessions, nextSid, outbox, procs,
                   redeemed, registered, loggedOut, requests, overlaps, faults>>

(* ---------------------------- specification --------------------------- *)
Init ==
    /\ users = {}
    /\ nextId = 1
    /\ redis = <<>>
    /\ issued = {}
    /\ sessions = <<>>
    /\ nextSid = 1
    /\ outbox = {}
    /\ now = 0
    /\ procs = [p \in Procs |-> Idle]
    /\ redeemed = [t \in Tokens \cup {BogusToken} |-> 0]
    /\ registered = {}
    /\ loggedOut = <<>>
    /\ requests = 0
    /\ overlaps = 0
    /\ faults = 0

\* the same server with clients that send a request while another is in flight
InitConcurrent ==
    /\ users = {}
    /\ nextId = 1
    /\ redis = <<>>
    /\ issued = {}
    /\ sessions = <<>>
    /\ nextSid = 1
    /\ outbox = {}
    /\ now = 0
    /\ procs = [p \in Procs |-> Idle]
    /\ redeemed = [t \in Tokens \cup {BogusToken} |-> 0]
    /\ registered = {}
    /\ loggedOut = <<>>
    /\ requests = 0
    /\ overlaps = MaxOverlaps
    /\ faults = 0

\* the same server with a database or a redis that fails once
InitFaulty ==
    /\ users = {}
    /\ nextId = 1
    /\ redis = <<>>
    /\ issued = {}
    /\ sessions = <<>>
    /\ nextSid = 1
    /\ outbox = {}
    /\ now = 0
    /\ procs = [p \in Procs |-> Idle]
    /\ redeemed = [t \in Tokens \cup {BogusToken} |-> 0]
    /\ registered = {}
    /\ loggedOut = <<>>
    /\ requests = 0
    /\ overlaps = 0
    /\ faults = MaxFaults

\* the requests the clients send
ChangePasswordRequest ==
    \E p \in Procs : Free(p) /\ \E h \in 0..MaxSids, t \in Tokens \cup {BogusToken},
        pw \in NewPasswords : ChangePasswordStart(p, h, t, pw)
ForgotPasswordRequest ==
    \E p \in Procs : Free(p) /\ \E e \in Emails : ForgotPasswordStart(p, e)
RegisterRequest ==
    \E p \in Procs : Free(p) /\ \E h \in 0..MaxSids, o \in RegisterInputs :
        RegisterStart(p, h, o)
LoginRequest ==
    \E p \in Procs : Free(p) /\ \E h \in 0..MaxSids, i \in LoginInputs :
        LoginStart(p, h, i.usernameOrEmail, i.password)
MeRequest == \E p \in Procs : Free(p) /\ \E h \in 0..MaxSids : MeStart(p, h)
LogoutRequest == \E p \in Procs : Free(p) /\ \E h \in 0..MaxSids : LogoutStart(p, h)

Next ==
    \/ ChangePasswordRequest
    \/ \E p \in Procs : Access(p, "changePassword", "get", ChangePasswordGet(p))
    \/ \E p \in Procs : Access(p, "changePassword", "find", ChangePasswordFind(p))
    \/ \E p \in Procs : Access(p, "changePassword", "flush", ChangePasswordFlush(p))
    \/ \E p \in Procs : Access(p, "changePassword", "del", ChangePasswordDel(p))
    \/ ForgotPasswordRequest
    \/ \E p \in Procs : Access(p, "forgotPassword", "find", ForgotPasswordFind(p))
    \/ \E p \in Procs : Access(p, "forgotPassword", "set", ForgotPasswordSet(p))
    \/ \E p \in Procs, o \in SendEmailOutcomes : ForgotPasswordSend(p, o)
    \/ RegisterRequest
    \/ \E p \in Procs : Access(p, "register", "find", RegisterFind(p))
    \/ \E p \in Procs : RegisterFlush(p)
    \/ LoginRequest
    \/ \E p \in Procs : Access(p, "login", "find", LoginFind(p))
    \/ MeRequest
    \/ \E p \in Procs : Access(p, "me", "find", MeFind(p))
    \/ LogoutRequest
    \/ \E p \in Procs, err \in BOOLEAN : LogoutDestroy(p, err)
    \/ \E p \in Procs : Respond(p)
    \/ Tick

Spec == Init /\ [][Next]_vars

SpecConcurrent == InitConcurrent /\ [][Next]_vars

SpecFaulty == InitFaulty /\ [][Next]_vars

(* ======================== the claims, C1 .. C20 ======================= *)
Finished(p, op) == procs[p].op = op /\ procs[p].pc = "done"
Moved(p) == procs'[p] # procs[p]
HasError(r, f) == r.tag = "errors" /\ \E i \in DOMAIN r.errors : r.errors[i].field = f
TokenExpired == Errors(<<FieldError("token", "token expired")>>)

\* C1 (as claimed): of the changePassword calls that present one reset token,
\* concurrent ones included, at most one returns a user
C1_TokenRedeemedOnce == \A t \in DOMAIN redeemed : redeemed[t] <= 1

\* C2: two register calls racing on one username: no two accounts share the
\* username, at most one of the calls returns a user, every account was returned
\* by exactly the call that created it, and a call with valid input that returns
\* errors returns a single error on 'username' and leaves its session unbound
C2_RegisterRace ==
    /\ \A u1, u2 \in users : u1.username = u2.username => u1 = u2
    /\ \A r1, r2 \in registered : r1.username = r2.username => r1 = r2
    /\ {u.id : u \in users} = {r.id : r \in registered}
    /\ \A p \in Procs :
          (/\ Finished(p, "register")
           /\ procs[p].result.tag = "errors"
           /\ validateRegister([username |-> procs[p].name, email |-> procs[p].email,
                                password |-> procs[p].password]) = <<>>)
          => /\ Len(procs[p].result.errors) = 1
             /\ procs[p].result.errors[1].field = "username"
             /\ procs[p].sess = procs[p].sess0

\* C2's case: both calls passed the findOne pre-check, one inserted the row and
\* the other one's persistAndFlush was refused
C2_Witness ==
    \E p, q \in Procs :
        /\ Finished(p, "register") /\ Finished(q, "register")
        /\ procs[p].name = procs[q].name
        /\ procs[p].result.tag = "user"
        /\ procs[q].result = Errors(<<FieldError("username", "something went wrong")>>)

\* C3: when a token is presented again after a changePassword that redeemed it
\* has returned, the first call (token in the store, valid password) returned a
\* user, the second returns 'token expired', and no step of the second call
\* changes the user table
C3_SecondRedemptionExpires ==
    /\ [](\A p \in Procs :
            (Finished(p, "changePassword") /\ ~PasswordTooShort(procs[p].password))
            => /\ (procs[p].again => procs[p].result = TokenExpired)
               /\ (procs[p].live /\ ~procs[p].again => procs[p].result.tag = "user"))
    /\ [][\A p \in Procs :
            (procs'[p].op = "changePassword" /\ procs'[p].again /\ Moved(p))
            => users' = users]_vars

C3_Witness ==
    \E p \in Procs :
        /\ Finished(p, "changePassword")
        /\ procs[p].again
        /\ ~PasswordTooShort(procs[p].password)
        /\ procs[p].result = TokenExpired
        /\ users # {}

\* C4 (as claimed): a changePassword never finds a token that was issued more
\* than 3 days before
C4_TokenGoneAfterThreeDays ==
    \A p \in Procs : procs[p].op = "changePassword" => procs[p].age <= ThreeDays

\* C5: a changePassword with a newPassword shorter than 3, and a register with a
\* password shorter than 3, return an error on that field, and no step of such a
\* call changes the user table, the token store or the session store
C5_ShortPasswordRejected ==
    /\ [](\A p \in Procs :
            /\ (Finished(p, "changePassword") /\ Len(procs[p].password) < 3)
               => /\ procs[p].result = Errors(<<FieldError("newPassword",
                                                "length must be greater than 3")>>)
                  /\ procs[p].sess = procs[p].sess0
            /\ (Finished(p, "register") /\ Len(procs[p].password) < 3)
               => /\ HasError(procs[p].result, "password")
                  /\ procs[p].sess = procs[p].sess0)
    /\ [][\A p \in Procs :
            LET r == IF procs[p].op = "idle" THEN procs'[p] ELSE procs[p]
            IN (r.op \in {"changePassword", "register"} /\ Len(r.password) < 3
                /\ Moved(p))
               => UNCHANGED <<users, nextId, redis, issued, sessions, nextSid>>]_vars

\* C5's case: the short password came with a token that is in the store
C5_Witness ==
    \E p \in Procs :
        /\ Finished(p, "changePassword")
        /\ Len(procs[p].password) < 3
        /\ procs[p].live
        /\ RedisLive(FORGET_PASSWORD_PREFIX \o procs[p].token)

\* C6: a login with the username and password of a register that returned a
\* user, no changePassword having written that account since, returns that
\* account, with the id register returned, and binds the session to it
C6_LoginAfterRegister ==
    \A p \in Procs : \A r \in registered :
        (/\ Finished(p, "login")
         /\ procs[p].name = r.username
         /\ procs[p].password = r.password
         /\ ~r.changed)
        => /\ procs[p].result.tag = "user"
           /\ procs[p].result.user.id = r.id
           /\ procs[p].result.user.username = r.username
           /\ procs[p].sess = r.id

C6_Witness ==
    \E p \in Procs : \E r \in registered :
        /\ Finished(p, "login")
        /\ procs[p].name = r.username
        /\ procs[p].password = r.password
        /\ ~r.changed
        /\ procs[p].result.tag = "user"

\* C7: a forgotPassword for an email no account has returns true, has generated
\* no token, and no mail has gone to that email; the step that finds no account
\* changes neither the token store nor the mails sent; and whenever
\* forgotPassword returns a value, the value is true
C7_UnknownEmail ==
    /\ [](\A p \in Procs :
            Finished(p, "forgotPassword")
            => /\ (procs[p].result.tag = "bool" => procs[p].result.val = TRUE)
               /\ (FindByEmail(procs[p].email) = NoUser
                   => /\ procs[p].result = BoolResult(TRUE)
                      /\ procs[p].token = ""
                      /\ \A m \in outbox : m.to # procs[p].email))
    /\ [][\A p \in Procs :
            (/\ procs[p].op = "forgotPassword" /\ Moved(p)
             /\ FindByEmail(procs[p].email) = NoUser)
            => UNCHANGED <<redis, issued, outbox>>]_vars

\* C7's case: an account exists, the email asked for is another one
C7_Witness ==
    \E p \in Procs :
        /\ Finished(p, "forgotPassword")
        /\ FindByEmail(procs[p].email) = NoUser
        /\ users # {}
        /\ procs[p].result = BoolResult(TRUE)

\* C8 (as claimed): every forgotPassword ends by returning true, also the one
\* whose sendEmail failed
C8_TrueWhenDispatchFails ==
    \A p \in Procs : Finished(p, "forgotPassword") => procs[p].result = BoolResult(TRUE)

C10_Logout ==
    \A p \in Procs :
        Finished(p, "logout")
        => /\ procs[p].cleared
           /\ procs[p].result.tag = "bool"
           /\ (procs[p].result.val = FALSE <=> procs[p].err)
           /\ (procs[p].sid = 0 /\ ~procs[p].err => procs[p].result = BoolResult(TRUE))

\* C10's case: destroy failed on a session that is in the store
C10_Witness ==
    \E p \in Procs :
        /\ Finished(p, "logout")
        /\ procs[p].err
        /\ procs[p].sid # 0
        /\ procs[p].cleared
        /\ procs[p].result = BoolResult(FALSE)

\* C11 (as claimed): every failure of register, login, changePassword and
\* forgotPassword, a rejected call to the database or to redis at any step
\* included, is returned as a field error: none of the four ever throws
C11_FailuresReturnedNotThrown ==
    \A p \in Procs :
        procs[p].op \in {"register", "login", "changePassword", "forgotPassword"}
            => procs[p].result.tag # "throw"

\* the session handle a request works on: its cookie's, or the one it is given
Handle(p) == IF procs[p].sid # 0 THEN procs[p].sid ELSE nextSid

\* C12: sessions are independent: a step of a request, a logout included,
\* changes the binding of no session handle but the request's own, so every
\* other handle bound to the same account stays bound to it
C12_SessionsIndependent ==
    [][\A h \in DOMAIN sessions \cup DOMAIN sessions' :
          \/ h \in DOMAIN sessions /\ h \in DOMAIN sessions'
             /\ sessions'[h] = sessions[h]
          \/ \E p \in Procs : Moved(p) /\ Handle(p) = h]_vars

\* a logout has destroyed one session of an account that has another session
C12_Witness ==
    \E p \in Procs :
        /\ Finished(p, "logout") /\ ~procs[p].err /\ procs[p].sess0 # 0
        /\ \E h \in DOMAIN sessions : h # procs[p].sid /\ sessions[h] = procs[p].sess0

\* the account forgotPassword issued a mailed token for: the one of the mail's address
IssuedFor(token) ==
    FindByEmail((CHOOSE m \in outbox : m.token = token).to).id

\* C13: a changePassword(T, p) that returns a user writes the hash of p to the
\* account T was issued for and to no other row, returns that account, and
\* binds the caller's session to it: the session is stored under that id, and
\* me() on a bound session returns the account of the id it is bound to
C13_ChangePasswordTarget ==
    /\ [](\A p \in Procs :
            (Finished(p, "changePassword") /\ procs[p].result.tag = "user") =>
                LET id == IssuedFor(procs[p].token)
                IN /\ id # 0
                   /\ procs[p].result.user.id = id
                   /\ procs[p].sess = id
                   /\ verify(FindById(id).password, procs[p].password)
                   /\ procs[p].result.user = FindById(id))
    /\ [][\A p \in Procs :
            (At(p, "changePassword", "flush") /\ Moved(p)) =>
                /\ \A u \in users : u.id # IssuedFor(procs[p].token) => u \in users'
                /\ Cardinality(users') = Cardinality(users)]_vars
    /\ [][\A p \in Procs :
            (Finished(p, "changePassword") /\ procs[p].result.tag = "user"
             /\ Moved(p)) =>
                /\ Handle(p) \in DOMAIN sessions'
                /\ sessions'[Handle(p)] = IssuedFor(procs[p].token)]_vars
    /\ [](\A p \in Procs :
            (Finished(p, "me") /\ procs[p].sess0 # 0) =>
                /\ procs[p].result = UserResult(FindById(procs[p].sess0))
                /\ procs[p].result.user.id = procs[p].sess0)

\* a changePassword has returned a user while a second account exists
C13_Witness ==
    \E p \in Procs :
        /\ Finished(p, "changePassword") /\ procs[p].result.tag = "user"
        /\ \E u \in users : u.id # procs[p].result.user.id

\* C14: in every reachable state, register calls in flight together included,
\* no two accounts share a username and no two share an email; a register
\* that passed the validator and whose username belongs to an account returns
\* a single error on 'username', creates no account and leaves the binding of
\* its session as it was, in the request and in the session store
C14_UniqueAccounts ==
    /\ [](\A u1, u2 \in users :
            (u1.username = u2.username \/ u1.email = u2.email) => u1 = u2)
    /\ [][\A p \in Procs :
            (/\ procs[p].op = "register" /\ procs[p].pc \in {"find", "flush"}
             /\ Moved(p)
             /\ FindByUsername(procs[p].name) # NoUser)
            => /\ procs'[p].pc = "done"
               /\ procs'[p].result.tag = "errors"
               /\ Len(procs'[p].result.errors) = 1
               /\ procs'[p].result.errors[1].field = "username"
               /\ users' = users
               /\ procs'[p].sess = procs[p].sess0]_vars
    /\ [][\A p \in Procs :
            (Finished(p, "register") /\ procs[p].result.tag = "errors" /\ Moved(p))
            => sessions' = sessions]_vars

\* a register on a bound session was refused because the username was taken
C14_Witness ==
    \E p \in Procs :
        /\ Finished(p, "register") /\ procs[p].sess0 # 0
        /\ procs[p].result =
              Errors(<<FieldError("username", "username already taken")>>)
        /\ Cardinality(users) = 1

\* the accounts a login string names: by email when it holds an '@', else by username
Named(s) ==
    IF \E i \in 1..Len(s) : s[i] = "@"
    THEN {u \in users : u.email = s}
    ELSE {u \in users : u.username = s}

\* C15: login looks the account up by email when the string holds an '@' and
\* by username otherwise; with no such account it returns one error on
\* 'usernameOrEmail', with a password that does not verify one error on
\* 'password', both leaving the session as it was; otherwise it returns the
\* account and binds the session to it, in the request and in the store
C15_Login ==
    /\ [](\A p \in Procs : Finished(p, "login") =>
            IF Named(procs[p].name) = {}
            THEN /\ HasError(procs[p].result, "usernameOrEmail")
                 /\ Len(procs[p].result.errors) = 1
                 /\ procs[p].sess = procs[p].sess0
            ELSE \A u \in Named(procs[p].name) :
                    IF u.password.of # procs[p].password
                    THEN /\ HasError(procs[p].result, "password")
                         /\ Len(procs[p].result.errors) = 1
                         /\ procs[p].sess = procs[p].sess0
                    ELSE /\ procs[p].result = UserResult(u)
                         /\ procs[p].sess = u.id)
    /\ [][\A p \in Procs : (Finished(p, "login") /\ Moved(p)) =>
            IF procs[p].result.tag = "user"
            THEN /\ Handle(p) \in DOMAIN sessions'
                 /\ sessions'[Handle(p)] = procs[p].result.user.id
            ELSE sessions' = sessions]_vars

\* a login by email has returned the account of that email
C15_Witness ==
    \E p \in Procs :
        /\ Finished(p, "login") /\ Includes(procs[p].name, "@")
        /\ procs[p].result.tag = "user"
        /\ procs[p].result.user.email = procs[p].name

\* C16: accounts are only added: over every step an account stays in the
\* table under its id with its username and email, and its password hash
\* changes only in the write of a changePassword that redeems a token issued
\* for it, a changePassword that then returns a user
C16_AccountsKept ==
    [][/\ \A u \in users :
            /\ Cardinality({v \in users' : v.id = u.id}) = 1
            /\ \A v \in users' : v.id = u.id =>
                /\ v.username = u.username
                /\ v.email = u.email
                /\ v.password # u.password =>
                      \E p \in Procs :
                          /\ At(p, "changePassword", "flush") /\ Moved(p)
                          /\ IssuedFor(procs[p].token) = u.id
       /\ \A p \in Procs :
            (At(p, "changePassword", "del") /\ Moved(p)) =>
                procs'[p].pc = "done" /\ procs'[p].result.tag = "user"]_vars

\* an account's hash is no longer the one register wrote; the rest of it is
C16_Witness ==
    \E r \in registered :
        /\ r.changed
        /\ FindById(r.id).username = r.username
        /\ ~verify(FindById(r.id).password, r.password)

\* C17: a session handle comes to be bound to an account, or to another one,
\* only when a login, register or changePassword that returned that account
\* on that handle ends; it comes to be unbound only in the destroy of a logout
\* on that handle; a request that returned errors, a me and a forgotPassword
\* leave req.session.userId and the session store as they were
C17_SessionStateMachine ==
    /\ [][\A h \in DOMAIN sessions \cup DOMAIN sessions' :
            /\ (h \in DOMAIN sessions'
                /\ (h \in DOMAIN sessions => sessions'[h] # sessions[h]))
               => \E p \in Procs :
                    /\ Moved(p) /\ Handle(p) = h
                    /\ procs[p].pc = "done" /\ Binding(procs[p].op)
                    /\ procs[p].result.tag = "user"
                    /\ procs[p].result.user.id = sessions'[h]
            /\ h \notin DOMAIN sessions'
               => \E p \in Procs :
                    /\ Moved(p) /\ procs[p].sid = h
                    /\ At(p, "logout", "destroy")]_vars
    /\ [](\A p \in Procs :
            (procs[p].pc = "done"
             /\ (procs[p].result.tag = "errors"
                 \/ procs[p].op \in {"me", "forgotPassword"}))
            => procs[p].sess = procs[p].sess0)
    /\ [][\A p \in Procs :
            (procs[p].pc = "done" /\ Moved(p)
             /\ (procs[p].result.tag = "errors"
                 \/ procs[p].op \in {"me", "forgotPassword"}))
            => sessions' = sessions]_vars

\* a login refused for its password on a bound session has left it bound
C17_Witness ==
    \E p \in Procs :
        /\ Finished(p, "login") /\ HasError(procs[p].result, "password")
        /\ procs[p].sess0 # 0
        /\ procs[p].sid \in DOMAIN sessions
        /\ sessions[procs[p].sid] = procs[p].sess0

\* C18: a reset token that is live stops being live only in the redis.del of a
\* changePassword that presents it and returns a user, or when the clock
\* passes its expiry; a changePassword that returns errors on a live token
\* leaves it live, and no step of forgotPassword, login, register, logout or
\* me takes a token out of the store
C18_TokenLeavesByRedemption ==
    /\ [][\A k \in DOMAIN redis :
            (RedisLive(k) /\ ~(k \in DOMAIN redis' /\ now' < redis'[k].expireAt))
            => \/ \E p \in Procs :
                    /\ At(p, "changePassword", "del") /\ Moved(p)
                    /\ ResetKey(procs[p].token) = k
                    /\ procs'[p].result.tag = "user"
               \/ /\ k \in DOMAIN redis' /\ redis'[k] = redis[k]
                  /\ now' >= redis[k].expireAt]_vars
    /\ [][\A k \in DOMAIN redis :
            k \notin DOMAIN redis' =>
                \E p \in Procs : procs[p].op = "changePassword" /\ Moved(p)]_vars
    /\ [](\A p \in Procs :
            (Finished(p, "changePassword") /\ procs[p].result.tag = "errors"
             /\ procs[p].live)
            => RedisLive(ResetKey(procs[p].token)))

\* a mailed token has left the store in the changePassword that redeemed it
C18_Witness ==
    \E p \in Procs : \E m \in outbox :
        /\ Finished(p, "changePassword") /\ procs[p].token = m.token
        /\ procs[p].result.tag = "user"
        /\ ResetKey(m.token) \notin DOMAIN redis

\* C19: forgotPassword does not invalidate earlier tokens: every mailed token
\* that has not been redeemed is live and holds the id of the account of its
\* mail, however many others were issued for that account; the set of a
\* forgotPassword and the del of a changePassword leave every other key as it
\* was; and a changePassword that presents a live token with a password of
\* valid length returns the account the token was issued for
C19_EarlierTokensStayValid ==
    /\ [](\A m \in outbox : redeemed[m.token] = 0 =>
            /\ RedisLive(ResetKey(m.token))
            /\ FindByEmail(m.to) # NoUser
            /\ parseInt(RedisGet(ResetKey(m.token))) = FindByEmail(m.to).id)
    /\ [][\A p \in Procs :
            (Moved(p) /\ (At(p, "forgotPassword", "set")
                          \/ At(p, "changePassword", "del")))
            => \A k \in DOMAIN redis :
                  k # ResetKey(procs[p].token) =>
                      k \in DOMAIN redis' /\ redis'[k] = redis[k]]_vars
    /\ [](\A p \in Procs :
            (/\ Finished(p, "changePassword") /\ procs[p].live
             /\ Len(procs[p].password) >= 3)
            => /\ procs[p].result.tag = "user"
               /\ procs[p].result.user.id = IssuedFor(procs[p].token))

\* two tokens were mailed for one account, one has been redeemed, the other is live
C19_Witness ==
    \E m1, m2 \in outbox :
        /\ m1.token # m2.token /\ m1.to = m2.to
        /\ redeemed[m1.token] = 1
        /\ RedisLive(ResetKey(m2.token))

\* C20: once a changePassword has returned a user for an account, a login that
\* names the account by username or by email returns it and binds the session
\* when it gives the password of the latest such changePassword, and returns
\* one error on 'password', the session left as it was, when it gives any
\* other password, the one the account had before included
C20_OldPasswordStopsWorking ==
    \A p \in Procs : \A r \in registered :
        (/\ Finished(p, "login")
         /\ r.changed
         /\ procs[p].name \in {r.username, FindById(r.id).email})
        => IF procs[p].password = r.current
           THEN /\ procs[p].result.tag = "user"
                /\ procs[p].result.user.id = r.id
                /\ procs[p].sess = r.id
           ELSE /\ HasError(procs[p].result, "password")
                /\ Len(procs[p].result.errors) = 1
                /\ procs[p].sess = procs[p].sess0

\* a login with the password of the register call has been refused after a
\* changePassword set another one
C20_Witness ==
    \E p \in Procs : \E r \in registered :
        /\ Finished(p, "login")
        /\ r.changed /\ r.current # r.password
        /\ procs[p].name = r.username
        /\ procs[p].password = r.password
        /\ HasError(procs[p].result, "password")

====
